---- MODULE Spec2Model ----
(***************************************************************************)
(* Viewport and cursor navigation of the text window                       *)
(* (src/app/ui/text_window.rs): TextWindowState and the part of            *)
(* TextWindow's render that reads and writes it.                           *)
(*                                                                         *)
(* The text buffer is a sequence of line lengths (the navigation code      *)
(* reads nothing else of a line).  A usize is an integer; a negative       *)
(* integer n stands for the wrapped value 2^64 + n, which only a build     *)
(* without overflow checks can produce.  A panic is recorded in `fault`    *)
(* and ends the program: no operation runs after it.  The state and the    *)
(* widget hold the buffer by Weak reference: once its owner has dropped    *)
(* it, every upgrade() fails.                                              *)
(***************************************************************************)
EXTENDS Integers, Sequences, FiniteSets, TLC

\* Bounds of the model.
MaxLines == 3
MaxLen == 2
MaxHeight == 3
MaxWidth == 4
\* Buffers of equal lines, taller and wider than the others (SpecUniform).
MaxUniformLines == 4
MaxUniformLen == 3
\* top_line grows without bound when a jump above the window is followed by
\* move_cursor(Down) in a build without overflow checks: Down is cut off when
\* top_line is this far past the last line.
MaxTopExcess == 1

VARIABLES
    buffer,                 \* Buffer.lines, as the sequence of the lines' lengths
    buffer_alive,           \* the Rc<Buffer> behind the Weak<Buffer> has not been dropped
    overflow_checks,        \* the build panics on integer overflow (debug) or wraps (release)
    top_line,
    leftmost_col,
    last_height,
    last_width,
    cur_vertical_percent,
    cursor,
    last_manual_col,
    fault                   \* "none", or the panic that ended the program

vars == <<buffer, buffer_alive, overflow_checks, top_line, leftmost_col, last_height, last_width,
          cur_vertical_percent, cursor, last_manual_col, fault>>

Min(a, b) == IF a <= b THEN a ELSE b

Max(a, b) == IF a >= b THEN a ELSE b

RECURSIVE GCD(_, _)
GCD(a, b) == IF b = 0 THEN a ELSE GCD(b, a % b)

\* Unsigned comparison of two usize values (a negative integer is a wrapped one).
ULt(a, b) == IF (a < 0) = (b < 0) THEN a < b ELSE b < 0

ULe(a, b) == a = b \/ ULt(a, b)

\* u16::MAX, the value of `height - 1` for height 0 in a build that wraps.
U16Max == 65535

(***************************************************************************)
(* f32 values of cur_vertical_percent.  The code only ever stores the      *)
(* quotient of two usize values, so a value is kept as that quotient:      *)
(*   num >= 0, den > 0   the fraction num/den in lowest terms              *)
(*   den = 0             NaN (num = 0) or +infinity (num = 1)              *)
(*   num = -1, den > 0   2^64 / den   (a wrapped numerator)                *)
(*   num > 0, den = -1   num / 2^64   (a wrapped denominator)              *)
(* Within the bounds of the model every quotient and every product below   *)
(* is computed by f32 exactly as by the fraction.                          *)
(***************************************************************************)
Zero == [num |-> 0, den |-> 1]

One == [num |-> 1, den |-> 1]

NaN == [num |-> 0, den |-> 0]

Infinity == [num |-> 1, den |-> 0]

\* `num as f32 / den as f32`
F32Div(num, den) ==
    IF den = 0 THEN (IF num = 0 THEN NaN ELSE Infinity)
    ELSE IF den < 0
         THEN (IF num < 0 THEN One ELSE IF num = 0 THEN Zero ELSE [num |-> num, den |-> -1])
    ELSE IF num < 0 THEN [num |-> -1, den |-> den]
    ELSE LET g == GCD(num, den) IN [num |-> num \div g, den |-> den \div g]

\* `(p * m as f32).round() as usize`: round half away from zero, NaN casts to 0,
\* a value of 2^63 or more is kept as -1 (it is only ever compared with a line).
RoundMul(p, m) ==
    IF p.den = 0 THEN (IF p.num = 0 \/ m = 0 THEN 0 ELSE -1)
    ELSE IF p.den < 0 THEN 0
    ELSE IF p.num < 0 THEN (IF m = 0 THEN 0 ELSE -1)
    ELSE (2 * p.num * m + p.den) \div (2 * p.den)

\* The navigation state as one value, for the operations below.
State ==
    [lines |-> buffer, alive |-> buffer_alive, overflow_checks |-> overflow_checks,
     top_line |-> top_line, leftmost_col |-> leftmost_col,
     last_height |-> last_height, last_width |-> last_width,
     cur_vertical_percent |-> cur_vertical_percent, cursor |-> cursor,
     last_manual_col |-> last_manual_col, fault |-> fault]

Panic(s, why) == [s EXCEPT !.fault = why]

Ok(s) == s.fault = "none"

\* `a - b` on usize panics in a build with overflow checks when b > a.
SubPanics(s, a, b) == s.overflow_checks /\ a - b < 0

\* `buffer.upgrade()` that still finds the buffer after its owner dropped it.
buffer_dead_NeverDead(s) == FALSE

\* `buffer.upgrade()` gives None: the `expect` of lines_count, line_length and
\* build_lines panics.
buffer_dead(s) == ~s.alive

DeadPanic(s) == Panic(s, "dead buffer")

lines_count(s) == Len(s.lines)

\* `lines[line]` panics when line is not an index of the buffer.
IndexPanics(s, line) == line < 0 \/ line >= Len(s.lines)

line_length(s, line) == s.lines[line + 1]

Pos(line, col) == [line |-> line, col |-> col]

\* TextWindowState::new
new(lines, checks) ==
    [lines |-> lines, alive |-> TRUE, overflow_checks |-> checks,
     top_line |-> 0, leftmost_col |-> 0, last_height |-> 2, last_width |-> 2,
     cur_vertical_percent |-> Zero, cursor |-> Pos(0, 0), last_manual_col |-> 0,
     fault |-> "none"]

\* TextWindowState::screen_bounds; `top_line + last_height - 1` and
\* `leftmost_col + last_width - 1` underflow when the sum is 0.
BoundsPanic(s) ==
    \/ SubPanics(s, s.top_line + s.last_height, 1)
    \/ SubPanics(s, s.leftmost_col + s.last_width, 1)

screen_bounds(s) ==
    [top_line |-> s.top_line,
     bottom_line |-> s.top_line + s.last_height - 1,
     leftmost_col |-> s.leftmost_col,
     rightmost_col |-> s.leftmost_col + s.last_width - 1]

\* TextWindowState::is_on_screen
is_on_screen(s, pos) ==
    LET b == screen_bounds(s)
        within_vertically == pos.line >= b.top_line /\ ULe(pos.line, b.bottom_line)
        within_horizontally == pos.col >= b.leftmost_col /\ ULe(pos.col, b.rightmost_col)
    IN  within_vertically /\ within_horizontally

\* jump_to_EOL that scrolls right by one column, as move_cursor(Right) does,
\* instead of bringing the end of the line to the right edge.
jump_to_EOL_ScrollsByOne(s) ==
    IF ~Ok(s) THEN s
    ELSE IF buffer_dead(s) THEN DeadPanic(s)
    ELSE IF IndexPanics(s, s.cursor.line) THEN Panic(s, "index out of bounds")
    ELSE LET line_len == line_length(s, s.cursor.line)
             col == line_len - 1
             to_the_right == col >= s.leftmost_col + s.last_width
             out_of_bounds == to_the_right \/ col < s.leftmost_col
         IN  IF line_len = 0 THEN [s EXCEPT !.cursor.col = 0, !.leftmost_col = 0]
             ELSE IF ~out_of_bounds THEN [s EXCEPT !.cursor.col = col]
             ELSE IF to_the_right
                  THEN [s EXCEPT !.cursor.col = col, !.leftmost_col = s.leftmost_col + 1]
             ELSE IF col >= s.last_width
                  THEN [s EXCEPT !.cursor.col = col, !.leftmost_col = col + 1 - s.last_width]
             ELSE [s EXCEPT !.cursor.col = col, !.leftmost_col = 0]

\* TextWindowState::jump_to_EOL
jump_to_EOL(s) ==
    IF ~Ok(s) THEN s
    ELSE IF buffer_dead(s) THEN DeadPanic(s)
    ELSE IF IndexPanics(s, s.cursor.line) THEN Panic(s, "index out of bounds")
    ELSE LET line_len == line_length(s, s.cursor.line)
             col == line_len - 1
             to_the_right == col >= s.leftmost_col + s.last_width
             out_of_bounds == to_the_right \/ col < s.leftmost_col
         IN  IF line_len = 0 THEN [s EXCEPT !.cursor.col = 0, !.leftmost_col = 0]
             ELSE IF ~out_of_bounds THEN [s EXCEPT !.cursor.col = col]
             ELSE IF to_the_right
                  THEN [s EXCEPT !.cursor.col = col, !.leftmost_col = col + 1 - s.last_width]
             ELSE IF col >= s.last_width
                  THEN [s EXCEPT !.cursor.col = col, !.leftmost_col = col + 1 - s.last_width]
             ELSE [s EXCEPT !.cursor.col = col, !.leftmost_col = 0]

\* TextWindowState::snap_to_EOL
snap_to_EOL(s) ==
    IF ~Ok(s) THEN s
    ELSE IF buffer_dead(s) THEN DeadPanic(s)
    ELSE IF lines_count(s) = 0 THEN [s EXCEPT !.cursor.col = 0, !.leftmost_col = 0]
    ELSE IF IndexPanics(s, s.cursor.line) THEN Panic(s, "index out of bounds")
    ELSE IF s.cursor.col >= line_length(s, s.cursor.line) THEN jump_to_EOL(s)
    ELSE s

\* TextWindowState::jump_within_screen
jump_within_screen(s, pos) ==
    LET relative_line == pos.line - s.top_line
        s1 == [s EXCEPT !.cursor = Pos(pos.line, pos.col)]
    IN  IF SubPanics(s, pos.line, s.top_line) \/ SubPanics(s, s.last_height, 1)
        THEN Panic(s1, "subtract with overflow")
        ELSE snap_to_EOL([s1 EXCEPT
                 !.cur_vertical_percent = F32Div(relative_line, s.last_height - 1)])

\* The first half of TextWindowState::jump off screen: the line (lines 204-210).
JumpLine(s, pos) ==
    LET b == screen_bounds(s)
        vertically_out_of_bounds == pos.line < b.top_line \/ ULt(b.bottom_line, pos.line)
        line == Min(pos.line, lines_count(s) - 1)
        relative_line == Min(s.last_height \div 2, line)
    IN  IF buffer_dead(s) THEN DeadPanic(s)
        ELSE IF lines_count(s) > 0 /\ vertically_out_of_bounds
        THEN IF SubPanics(s, s.last_height, 1)
             THEN Panic([s EXCEPT !.cursor.line = line], "subtract with overflow")
             ELSE [s EXCEPT !.cursor.line = line,
                            !.cur_vertical_percent =
                                F32Div(relative_line, s.last_height - 1)]
        ELSE s

\* The second half of TextWindowState::jump off screen: the column (lines 212-216).
\* The bounds are those computed before the line was set.
JumpCol(s, b, pos) ==
    LET relative_col == Min((s.last_width * 3) \div 4, pos.col)
    IN  IF ~Ok(s) THEN s
        ELSE IF pos.col < b.leftmost_col \/ ULt(b.rightmost_col, pos.col)
        THEN [s EXCEPT !.leftmost_col = pos.col - relative_col, !.cursor.col = pos.col]
        ELSE s

SetManualCol(s) == IF Ok(s) THEN [s EXCEPT !.last_manual_col = s.cursor.col] ELSE s

\* TextWindowState::jump
jump(s, pos) ==
    IF ~Ok(s) THEN s
    ELSE IF BoundsPanic(s) THEN Panic(s, "subtract with overflow")
    ELSE IF is_on_screen(s, pos) THEN jump_within_screen(s, pos)
    ELSE SetManualCol(snap_to_EOL(JumpCol(JumpLine(s, pos), screen_bounds(s), pos)))

\* TextWindowState::jump_to_home
jump_to_home(s) ==
    IF ~Ok(s) THEN s
    ELSE [s EXCEPT !.cursor.col = 0, !.leftmost_col = 0, !.last_manual_col = 0]

\* jump_to_last_line that leaves out the `+ 1` of `line - last_height + 1`.
jump_to_last_line_NoPlusOne(s) ==
    LET line == IF lines_count(s) > 0 THEN lines_count(s) - 1 ELSE 0
        top == IF line >= s.last_height THEN line - s.last_height ELSE 0
        relative_line == line - top
        s1 == [s EXCEPT !.top_line = top, !.cursor.line = line]
    IN  IF ~Ok(s) THEN s
        ELSE IF buffer_dead(s) THEN DeadPanic(s)
        ELSE IF SubPanics(s, line, top) \/ SubPanics(s, s.last_height, 1)
        THEN Panic(s1, "subtract with overflow")
        ELSE SetManualCol(snap_to_EOL([s1 EXCEPT
                 !.cur_vertical_percent = F32Div(relative_line, s.last_height - 1)]))

\* TextWindowState::jump_to_last_line
jump_to_last_line(s) ==
    LET line == IF lines_count(s) > 0 THEN lines_count(s) - 1 ELSE 0
        top == IF line >= s.last_height THEN line - s.last_height + 1 ELSE 0
        relative_line == line - top
        s1 == [s EXCEPT !.top_line = top, !.cursor.line = line]
    IN  IF ~Ok(s) THEN s
        ELSE IF buffer_dead(s) THEN DeadPanic(s)
        ELSE IF SubPanics(s, line, top) \/ SubPanics(s, s.last_height, 1)
        THEN Panic(s1, "subtract with overflow")
        ELSE SetManualCol(snap_to_EOL([s1 EXCEPT
                 !.cur_vertical_percent = F32Div(relative_line, s.last_height - 1)]))

\* The column snap that ends move_cursor(Up) and move_cursor(Down) (lines 79-87, 106-114).
SnapColumn(s) ==
    IF ~Ok(s) THEN s
    ELSE IF buffer_dead(s) THEN DeadPanic(s)
    ELSE IF IndexPanics(s, s.cursor.line) THEN Panic(s, "index out of bounds")
    ELSE LET new_line_length == line_length(s, s.cursor.line)
         IN  IF s.cursor.col >= new_line_length THEN jump_to_EOL(s)
             ELSE jump(s, Pos(s.cursor.line,
                              Min(s.last_manual_col, Max(new_line_length, 1) - 1)))

\* TextWindowState::move_cursor, Rectilinear::Up
MoveUp(s) ==
    LET relative_line == s.cursor.line - s.top_line
        line == s.cursor.line - 1
    IN  IF s.cursor.line <= 0 THEN s
        ELSE IF SubPanics(s, s.cursor.line, s.top_line)
             THEN Panic(s, "subtract with overflow")
        ELSE IF line < s.top_line
             THEN SnapColumn([s EXCEPT !.cursor.line = line,
                                       !.cur_vertical_percent = Zero,
                                       !.top_line = line])
        ELSE IF SubPanics(s, s.last_height, 1)
             THEN Panic([s EXCEPT !.cursor.line = line], "subtract with overflow")
        ELSE SnapColumn([s EXCEPT !.cursor.line = line,
                                  !.cur_vertical_percent =
                                      F32Div(relative_line - 1, s.last_height - 1)])

\* move_cursor(Down) that stops one line too late (`cursor.line >= lines_count`).
MoveDown_PastLastLine(s) ==
    LET relative_line == s.cursor.line - s.top_line
        line == s.cursor.line + 1
    IN  IF buffer_dead(s) THEN DeadPanic(s)
        ELSE IF s.cursor.line >= lines_count(s) THEN s
        ELSE IF SubPanics(s, s.cursor.line, s.top_line)
             THEN Panic(s, "subtract with overflow")
        ELSE IF s.cur_vertical_percent = One
             THEN SnapColumn([s EXCEPT !.cursor.line = line, !.top_line = s.top_line + 1])
        ELSE IF SubPanics(s, s.last_height, 1)
             THEN Panic([s EXCEPT !.cursor.line = line], "subtract with overflow")
        ELSE SnapColumn([s EXCEPT !.cursor.line = line,
                                  !.cur_vertical_percent =
                                      F32Div(relative_line + 1, s.last_height - 1)])

\* TextWindowState::move_cursor, Rectilinear::Down
MoveDown(s) ==
    LET relative_line == s.cursor.line - s.top_line
        line == s.cursor.line + 1
    IN  IF buffer_dead(s) THEN DeadPanic(s)
        ELSE IF s.cursor.line + 1 >= lines_count(s) THEN s
        ELSE IF SubPanics(s, s.cursor.line, s.top_line)
             THEN Panic(s, "subtract with overflow")
        ELSE IF s.cur_vertical_percent = One
             THEN SnapColumn([s EXCEPT !.cursor.line = line, !.top_line = s.top_line + 1])
        ELSE IF SubPanics(s, s.last_height, 1)
             THEN Panic([s EXCEPT !.cursor.line = line], "subtract with overflow")
        ELSE SnapColumn([s EXCEPT !.cursor.line = line,
                                  !.cur_vertical_percent =
                                      F32Div(relative_line + 1, s.last_height - 1)])

\* move_cursor(Right) that stops one column too late (`cursor.col >= line_length`).
MoveRight_PastEndOfLine(s) ==
    IF buffer_dead(s) THEN DeadPanic(s)
    ELSE IF lines_count(s) = 0 THEN s
    ELSE IF IndexPanics(s, s.cursor.line) THEN Panic(s, "index out of bounds")
    ELSE IF s.cursor.col >= line_length(s, s.cursor.line) THEN s
    ELSE LET col == s.cursor.col + 1
         IN  [s EXCEPT !.cursor.col = col, !.last_manual_col = col,
                       !.leftmost_col = IF col >= s.leftmost_col + s.last_width
                                        THEN s.leftmost_col + 1 ELSE s.leftmost_col]

\* move_cursor(Right) that does not record the new column in last_manual_col.
MoveRight_KeepsManualCol(s) ==
    IF buffer_dead(s) THEN DeadPanic(s)
    ELSE IF lines_count(s) = 0 THEN s
    ELSE IF IndexPanics(s, s.cursor.line) THEN Panic(s, "index out of bounds")
    ELSE IF s.cursor.col + 1 >= line_length(s, s.cursor.line) THEN s
    ELSE LET col == s.cursor.col + 1
         IN  [s EXCEPT !.cursor.col = col,
                       !.leftmost_col = IF col >= s.leftmost_col + s.last_width
                                        THEN s.leftmost_col + 1 ELSE s.leftmost_col]

\* TextWindowState::move_cursor, Rectilinear::Right
MoveRight(s) ==
    IF buffer_dead(s) THEN DeadPanic(s)
    ELSE IF lines_count(s) = 0 THEN s
    ELSE IF IndexPanics(s, s.cursor.line) THEN Panic(s, "index out of bounds")
    ELSE IF s.cursor.col + 1 >= line_length(s, s.cursor.line) THEN s
    ELSE LET col == s.cursor.col + 1
         IN  [s EXCEPT !.cursor.col = col, !.last_manual_col = col,
                       !.leftmost_col = IF col >= s.leftmost_col + s.last_width
                                        THEN s.leftmost_col + 1 ELSE s.leftmost_col]

\* move_cursor(Left) that does not scroll the window when the cursor leaves it
\* on the left.
MoveLeft_NoScroll(s) ==
    IF s.cursor.col <= 0 THEN s
    ELSE LET col == s.cursor.col - 1
         IN  [s EXCEPT !.cursor.col = col, !.last_manual_col = col]

\* TextWindowState::move_cursor, Rectilinear::Left
MoveLeft(s) ==
    IF s.cursor.col <= 0 THEN s
    ELSE LET col == s.cursor.col - 1
         IN  [s EXCEPT !.cursor.col = col, !.last_manual_col = col,
                       !.leftmost_col = IF col < s.leftmost_col THEN col ELSE s.leftmost_col]

Rectilinear == {"Up", "Down", "Left", "Right"}

\* TextWindowState::move_cursor
move_cursor(s, dir) ==
    IF ~Ok(s) THEN s
    ELSE CASE dir = "Up" -> MoveUp(s)
           [] dir = "Down" -> MoveDown(s)
           [] dir = "Right" -> MoveRight(s)
           [] dir = "Left" -> MoveLeft(s)

(***************************************************************************)
(* Rendering.  A rendered row is [text, len, cursor, col]: `text` chars of *)
(* the buffer line are shown (the rest of the `len` chars are padding),    *)
(* and `cursor` says how highlight_cursor restyled the row:                *)
(*   "none"   not at all                                                   *)
(*   "space"  the row was replaced by one reverse-video space              *)
(*   "split"  the char at `col` is reverse-video, the rest selected-line   *)
(***************************************************************************)
Row(text, len) == [text |-> text, len |-> len, cursor |-> "none", col |-> 0]

\* `height - 1` on the u16 height (line 300).
HeightMinusOne(height) == IF height = 0 THEN U16Max ELSE height - 1

\* The first buffer line build_lines shows (lines 299-305).
BuildTopLine(s, height) ==
    LET cursor_rel_line == RoundMul(s.cur_vertical_percent, HeightMinusOne(height))
    IN  IF ULt(cursor_rel_line, s.cursor.line) THEN s.cursor.line - cursor_rel_line ELSE 0

\* One past the last buffer line build_lines shows (line 306).
BuildLastLine(s, height) == Min(BuildTopLine(s, height) + height, lines_count(s))

\* One row of build_lines (lines 312-319): the line from leftmost_col on, padded
\* with spaces to at least `width` chars.
BuildRow(s, line, width) ==
    LET len == line_length(s, line)
        text == IF s.leftmost_col < len THEN len - s.leftmost_col ELSE 0
    IN  Row(text, Max(text, width))

\* TextWindow::build_lines
build_lines(s, height, width) ==
    LET s1 == [s EXCEPT !.last_height = height, !.last_width = width]
        top == BuildTopLine(s1, height)
        last == BuildLastLine(s1, height)
    IN  IF buffer_dead(s) THEN [state |-> DeadPanic(s), lines |-> <<>>]
        ELSE IF SubPanics(s, height, 1)
        THEN [state |-> Panic(s1, "subtract with overflow"), lines |-> <<>>]
        ELSE IF top > last
        THEN [state |-> Panic(s1, "slice index out of range"), lines |-> <<>>]
        ELSE [state |-> s1,
              lines |-> [i \in 1..(last - top) |-> BuildRow(s1, top + i - 1, width)]]

\* The row highlight_cursor adds when build_lines gave none (lines 324-328).
BlankRow(s) == Row(0, s.last_width - 1)

\* The restyling of the cursor's row (lines 345-355).
HighlightRow(row, col) ==
    IF row.len = 0 THEN [text |-> 0, len |-> 1, cursor |-> "space", col |-> 0]
    ELSE [row EXCEPT !.cursor = "split", !.col = col]

\* TextWindow::highlight_cursor
highlight_cursor(lines, s) ==
    LET rows == IF lines = <<>> THEN <<BlankRow(s)>> ELSE lines
        line == s.cursor.line - s.top_line
        col == s.cursor.col - s.leftmost_col
    IN  IF lines = <<>> /\ s.last_width = 0
        THEN [state |-> Panic(s, IF s.overflow_checks THEN "subtract with overflow"
                                 ELSE "allocation failure"),
              lines |-> lines]
        ELSE IF s.cursor.line < s.top_line THEN [state |-> s, lines |-> rows]
        ELSE IF line >= Len(rows) THEN [state |-> s, lines |-> rows]
        ELSE IF SubPanics(s, s.cursor.col, s.leftmost_col)
        THEN [state |-> Panic(s, "subtract with overflow"), lines |-> rows]
        ELSE IF rows[line + 1].len > 0 /\ (col < 0 \/ col >= rows[line + 1].len)
        THEN [state |-> Panic(s, "slice index out of range"), lines |-> rows]
        ELSE [state |-> s,
              lines |-> [rows EXCEPT ![line + 1] = HighlightRow(rows[line + 1], col)]]

\* TextWindow::render, for a text area (window_layout[2]) of the given size;
\* it starts by counting the lines for the width of the line numbers.
render(s, height, width) ==
    LET built == build_lines(s, height, width)
    IN  IF ~Ok(s) THEN [state |-> s, lines |-> <<>>]
        ELSE IF buffer_dead(s) THEN [state |-> DeadPanic(s), lines |-> <<>>]
        ELSE IF ~Ok(built.state) THEN built
        ELSE highlight_cursor(built.lines, built.state)

(***************************************************************************)
(* The state machine: the input loop calls the public operations in any    *)
(* order, and the display refresh renders with any area size.              *)
(***************************************************************************)
LineLens == 0..MaxLen

Buffers == UNION {[1..n -> LineLens] : n \in 0..MaxLines}

\* Buffers whose lines all have the same, positive length.
UniformBuffers ==
    {[i \in 1..n |-> c] : n \in 1..MaxUniformLines, c \in 1..MaxUniformLen}

RECURSIVE MaxOf(_)
MaxOf(S) == IF S = {} THEN 0 ELSE LET x == CHOOSE y \in S : TRUE IN Max(x, MaxOf(S \ {x}))

\* Jump targets: any position of the buffer, and those one past its last line
\* and one past the end of its longest line (line 1 and column 1 on an empty
\* buffer).
Targets(lines) ==
    {Pos(l, c) : l \in 0..Max(Len(lines), 1),
                 c \in 0..Max(MaxOf({lines[i] : i \in 1..Len(lines)}), 1)}

Heights == 0..MaxHeight

Widths == 0..MaxWidth

Apply(s) ==
    /\ top_line' = s.top_line
    /\ leftmost_col' = s.leftmost_col
    /\ last_height' = s.last_height
    /\ last_width' = s.last_width
    /\ cur_vertical_percent' = s.cur_vertical_percent
    /\ cursor' = s.cursor
    /\ last_manual_col' = s.last_manual_col
    /\ fault' = s.fault
    /\ UNCHANGED <<buffer, buffer_alive, overflow_checks>>

InitState(buffers) ==
    /\ buffer \in buffers
    /\ buffer_alive = TRUE
    /\ overflow_checks \in BOOLEAN
    /\ top_line = new(buffer, overflow_checks).top_line
    /\ leftmost_col = new(buffer, overflow_checks).leftmost_col
    /\ last_height = new(buffer, overflow_checks).last_height
    /\ last_width = new(buffer, overflow_checks).last_width
    /\ cur_vertical_percent = new(buffer, overflow_checks).cur_vertical_percent
    /\ cursor = new(buffer, overflow_checks).cursor
    /\ last_manual_col = new(buffer, overflow_checks).last_manual_col
    /\ fault = new(buffer, overflow_checks).fault

Init == InitState(Buffers)

InitUniform == InitState(UniformBuffers)

Up == fault = "none" /\ Apply(move_cursor(State, "Up"))

Down ==
    /\ fault = "none"
    /\ top_line < Len(buffer) + MaxTopExcess
    /\ Apply(move_cursor(State, "Down"))

Left == fault = "none" /\ Apply(move_cursor(State, "Left"))

Right == fault = "none" /\ Apply(move_cursor(State, "Right"))

Jump == fault = "none" /\ \E pos \in Targets(buffer) : Apply(jump(State, pos))

JumpToEOL == fault = "none" /\ Apply(jump_to_EOL(State))

JumpToHome == fault = "none" /\ Apply(jump_to_home(State))

JumpToLastLine == fault = "none" /\ Apply(jump_to_last_line(State))

Render ==
    fault = "none" /\ \E h \in Heights, w \in Widths : Apply(render(State, h, w).state)

Next ==
    \/ Up
    \/ Down
    \/ Left
    \/ Right
    \/ Jump
    \/ JumpToEOL
    \/ JumpToHome
    \/ JumpToLastLine
    \/ Render

Spec == Init /\ [][Next]_vars

\* Only move_cursor is called, from the state `new` builds.
NextMoves ==
    \/ Up
    \/ Down
    \/ Left
    \/ Right

SpecMoves == Init /\ [][NextMoves]_vars

\* Every operation, on the buffers of equal lines.
SpecUniform == InitUniform /\ [][Next]_vars

(***************************************************************************)
(* Properties.                                                             *)
(***************************************************************************)
\* The last column of a line: line_length - 1, or 0 on an empty line.
LastCol(line) == Max(buffer[line + 1], 1) - 1

\* C1: under move_cursor calls alone, from the state `new` builds, the cursor
\* stays in bounds: it is (0,0) on an empty buffer, and otherwise on a line of
\* the buffer and on a column of that line (column 0 on an empty line); no
\* call panics.
C1_CursorInBounds ==
    /\ fault = "none"
    /\ IF Len(buffer) = 0 THEN cursor = Pos(0, 0)
       ELSE /\ cursor.line \in 0..(Len(buffer) - 1)
            /\ cursor.col \in 0..LastCol(cursor.line)

\* The cursor has gone down a buffer with an empty line to the end of the last
\* line, scrolling the window.
C1_Witness ==
    /\ Len(buffer) = MaxLines
    /\ \E i \in 1..Len(buffer) : buffer[i] = 0
    /\ cursor = Pos(MaxLines - 1, MaxLen - 1)
    /\ top_line > 0

\* C2 (as claimed): jump to a position on a line of the buffer leaves the
\* cursor on that line, and on the target column, or on the last column of the
\* line when the target column is past it.
C2_JumpReachesTarget ==
    \A pos \in Targets(buffer) :
        (fault = "none" /\ pos.line < Len(buffer) /\ Ok(jump(State, pos)))
            => jump(State, pos).cursor = Pos(pos.line, Min(pos.col, LastCol(pos.line)))

\* C3 (as claimed): the cursor's line is a line of the buffer (line 0 on an
\* empty buffer) in every state, and no operation indexes a line that is not
\* there.
C3_CursorLineValid ==
    /\ fault # "index out of bounds"
    /\ cursor.line \in 0..(Max(Len(buffer), 1) - 1)

\* C4 (as claimed): from a state with the cursor below the first line,
\* move_cursor(Up) and then move_cursor(Down) bring the cursor back to the line
\* and the column it was on.
C4_UpThenDownRestores ==
    (fault = "none" /\ cursor.line >= 1)
        => LET back == move_cursor(move_cursor(State, "Up"), "Down")
           IN  Ok(back) /\ back.cursor = cursor

\* C5: on a non-empty buffer a second jump_to_EOL right after the first changes
\* nothing: cursor, leftmost_col, top_line, last_manual_col and the vertical
\* percent stay as the first call left them.
C5_JumpToEOLIdempotent ==
    (fault = "none" /\ Len(buffer) > 0)
        => /\ Ok(jump_to_EOL(State))
           /\ jump_to_EOL(jump_to_EOL(State)) = jump_to_EOL(State)

\* A state in which jump_to_EOL moves the cursor and scrolls the window.
C5_Witness ==
    /\ fault = "none"
    /\ Len(buffer) > 0
    /\ jump_to_EOL(State).cursor.col > cursor.col
    /\ jump_to_EOL(State).leftmost_col > leftmost_col

\* C6: a move past an edge of the buffer changes no field of the state and does
\* not panic: Up on line 0, Down on the last line or on an empty buffer, Left
\* on column 0, Right on the last column of the line or on an empty buffer.
C6_EdgeMovesChangeNothing ==
    fault = "none" =>
        /\ cursor.line = 0 => move_cursor(State, "Up") = State
        /\ cursor.line + 1 >= Len(buffer) => move_cursor(State, "Down") = State
        /\ cursor.col = 0 => move_cursor(State, "Left") = State
        /\ (Len(buffer) = 0 \/ (cursor.line < Len(buffer) /\ cursor.col >= LastCol(cursor.line)))
               => move_cursor(State, "Right") = State

\* The cursor is at the end of the last line, in a window scrolled both ways.
C6_Witness ==
    /\ fault = "none"
    /\ Len(buffer) > 1
    /\ cursor = Pos(Len(buffer) - 1, LastCol(Len(buffer) - 1))
    /\ top_line > 0
    /\ leftmost_col > 0

\* k calls of move_cursor(Down).
RECURSIVE DownTimes(_, _)
DownTimes(s, k) == IF k = 0 THEN s ELSE move_cursor(DownTimes(s, k - 1), "Down")

\* C7: with more lines than the height H >= 2 of the window, the cursor on line
\* 0 and top_line 0, the k-th move_cursor(Down) for k < H leaves top_line 0 and
\* makes the vertical percent k/(H-1), which is 1 for k = H-1; the H-th makes
\* top_line 1 and leaves the percent 1.
C7_ScrollAfterBottomRow ==
    (/\ fault = "none"
     /\ last_height >= 2
     /\ Len(buffer) > last_height
     /\ cursor.line = 0
     /\ top_line = 0)
        => \A k \in 1..last_height :
               LET d == DownTimes(State, k)
                   p == d.cur_vertical_percent
               IN  /\ Ok(d)
                   /\ d.cursor.line = k
                   /\ p.den > 0
                   /\ IF k < last_height
                      THEN d.top_line = 0 /\ p.num * (last_height - 1) = k * p.den
                      ELSE d.top_line = 1 /\ p.num = p.den

\* The window of height 3 has just scrolled by one line: the cursor went from
\* line 0 through the percents 1/2 and 1 to line 3.
C7_Witness ==
    /\ fault = "none"
    /\ last_height = 3
    /\ Len(buffer) > 3
    /\ cursor.line = 3
    /\ top_line = 1
    /\ cur_vertical_percent = One

\* C8 (as claimed): with N lines and a window of height H < N, jump_to_last_line
\* puts the cursor on line N-1 and makes top_line N - H + 1.
C8_LastLineTopPlusOne ==
    (fault = "none" /\ Len(buffer) > last_height)
        => LET r == jump_to_last_line(State)
           IN  /\ Ok(r)
               /\ r.cursor.line = Len(buffer) - 1
               /\ r.top_line = Len(buffer) - last_height + 1

\* C8 (amended): with N lines and a window of height H < N, jump_to_last_line
\* puts the cursor on line N-1 and makes top_line N - H, so that the last line
\* is the bottom row of the window.
C8_LastLineAtBottomRow ==
    (fault = "none" /\ Len(buffer) > last_height)
        => LET r == jump_to_last_line(State)
           IN  /\ Ok(r)
               /\ r.cursor.line = Len(buffer) - 1
               /\ r.top_line = Len(buffer) - last_height

\* From the first line, jump_to_last_line moves the cursor and the window of
\* height 3 to the end of a buffer of 4 lines.
C8_Witness ==
    /\ fault = "none"
    /\ last_height = 3
    /\ Len(buffer) = 4
    /\ cursor.line = 0
    /\ top_line = 0
    /\ jump_to_last_line(State).cursor.line = 3
    /\ jump_to_last_line(State).top_line = 1

\* k calls of move_cursor(Right).
RECURSIVE RightTimes(_, _)
RightTimes(s, k) == IF k = 0 THEN s ELSE move_cursor(RightTimes(s, k - 1), "Right")

\* C9: on a buffer of one line of length L >= 1, in a window wider than L, with
\* the cursor at (0,0): the k-th move_cursor(Right) for k < L puts the cursor
\* on (0,k) and makes last_manual_col k, and every further call changes
\* nothing.
C9_RightToEndOfLine ==
    (/\ fault = "none"
     /\ Len(buffer) = 1
     /\ buffer[1] >= 1
     /\ last_width > buffer[1]
     /\ cursor = Pos(0, 0))
        => /\ \A k \in 1..(buffer[1] - 1) :
                  LET r == RightTimes(State, k)
                  IN  Ok(r) /\ r.cursor = Pos(0, k) /\ r.last_manual_col = k
           /\ \A k \in buffer[1]..(buffer[1] + 2) :
                  RightTimes(State, k) = RightTimes(State, buffer[1] - 1)

\* The cursor has reached the end of the longest single line, in a wider window.
C9_Witness ==
    /\ fault = "none"
    /\ buffer = <<MaxUniformLen>>
    /\ last_width > MaxUniformLen
    /\ cursor = Pos(0, MaxUniformLen - 1)
    /\ last_manual_col = MaxUniformLen - 1
    /\ leftmost_col = 0

\* C10 (as claimed): on an empty buffer the cursor is (0,0), and a render with
\* a text area of any width (and a height of 2 or more) gives one blank row on
\* which the cursor shows as one reverse-video space.
C10_EmptyBufferRender ==
    (fault = "none" /\ Len(buffer) = 0)
        => /\ cursor = Pos(0, 0)
           /\ \A h \in Heights, w \in Widths :
                  h >= 2 =>
                      LET r == render(State, h, w)
                      IN  /\ Ok(r.state)
                          /\ Len(r.lines) = 1
                          /\ r.lines[1].text = 0
                          /\ r.lines[1].cursor \in {"space", "split"}

(***************************************************************************)
(* The same operations with a text area of at least 2 rows and 2 columns   *)
(* at every render.                                                        *)
(***************************************************************************)
SizedHeights == 2..MaxHeight

SizedWidths == 2..MaxWidth

RenderSized ==
    /\ fault = "none"
    /\ \E h \in SizedHeights, w \in SizedWidths : Apply(render(State, h, w).state)

NextSized ==
    \/ Up
    \/ Down
    \/ Left
    \/ Right
    \/ Jump
    \/ JumpToEOL
    \/ JumpToHome
    \/ JumpToLastLine
    \/ RenderSized

SpecSized == Init /\ [][NextSized]_vars

\* C11 (as claimed): in every state reached by the navigation operations and
\* renders of height 2 or more, the vertical percent is a number between 0 and
\* 1 inclusive.
C11_PercentInUnitInterval ==
    fault = "none" =>
        /\ cur_vertical_percent.den > 0
        /\ 0 <= cur_vertical_percent.num
        /\ cur_vertical_percent.num <= cur_vertical_percent.den

\* C12 (as claimed): after a render with a text area of any height and width,
\* 0 and 1 included, the cached last_height and last_width are both 2 or more,
\* and the render has not panicked.
C12_MinimumViewportSize ==
    fault = "none" =>
        \A h \in Heights, w \in Widths :
            LET r == render(State, h, w).state
            IN  Ok(r) /\ r.last_height >= 2 /\ r.last_width >= 2

(***************************************************************************)
(* The owner of the buffer may drop it between any two operations: the     *)
(* Weak<Buffer> of the state and of the widget is then dead for good.      *)
(***************************************************************************)
Release ==
    /\ fault = "none"
    /\ buffer_alive
    /\ buffer_alive' = FALSE
    /\ UNCHANGED <<buffer, overflow_checks, top_line, leftmost_col, last_height,
                   last_width, cur_vertical_percent, cursor, last_manual_col, fault>>

NextRelease ==
    \/ NextSized
    \/ Release

SpecRelease == Init /\ [][NextRelease]_vars

\* C13: once the buffer has been dropped, every operation that reads it ends
\* in a panic: move_cursor(Down), move_cursor(Right), every jump, jump_to_EOL,
\* jump_to_last_line and every render always, move_cursor(Up) when the cursor
\* is below line 0.  The state itself stays usable: the operations that do not
\* read the buffer (move_cursor(Left), jump_to_home, Up on line 0) complete
\* without a panic.
C13_DeadBufferFaults ==
    (fault = "none" /\ ~buffer_alive) =>
        /\ ~Ok(move_cursor(State, "Down"))
        /\ ~Ok(move_cursor(State, "Right"))
        /\ cursor.line > 0 => ~Ok(move_cursor(State, "Up"))
        /\ \A pos \in Targets(buffer) : ~Ok(jump(State, pos))
        /\ ~Ok(jump_to_EOL(State))
        /\ ~Ok(jump_to_last_line(State))
        /\ \A h \in Heights, w \in Widths : ~Ok(render(State, h, w).state)
        /\ Ok(move_cursor(State, "Left"))
        /\ Ok(jump_to_home(State))
        /\ cursor.line = 0 => move_cursor(State, "Up") = State

\* An operation has panicked on the dead buffer, with the cursor below line 0
\* of a scrolled window.
C13_Witness ==
    /\ ~buffer_alive
    /\ fault = "dead buffer"
    /\ cursor.line > 0
    /\ top_line > 0

\* C14 (as claimed): on a non-empty buffer, jump to a target whose line is
\* outside the rows top_line .. top_line + last_height - 1 puts the cursor on
\* line c = min(target.line, line count - 1), exactly min(last_height / 2, c)
\* rows below top_line, and makes the vertical percent that row over
\* last_height - 1.
C14_JumpRecentres ==
    \A pos \in Targets(buffer) :
        (/\ fault = "none"
         /\ Len(buffer) > 0
         /\ last_height >= 2
         /\ (pos.line < top_line \/ pos.line > top_line + last_height - 1))
            => LET r == jump(State, pos)
                   c == Min(pos.line, Len(buffer) - 1)
                   row == Min(last_height \div 2, c)
               IN  /\ Ok(r)
                   /\ r.cursor.line = c
                   /\ r.cursor.line - r.top_line = row
                   /\ r.cur_vertical_percent = F32Div(row, last_height - 1)

\* C15 (as claimed): after build_lines(height, width, state) the stored
\* top_line is cursor.line - round(percent * (height - 1)), or 0 when that is
\* negative: the first buffer line of the rendered rows.
C15_RenderStoresTopLine ==
    fault = "none" =>
        \A h \in SizedHeights, w \in SizedWidths :
            LET b == build_lines(State, h, w)
            IN  Ok(b.state) => b.state.top_line = BuildTopLine(b.state, h)

\* C16 (as claimed): move_cursor(Up) and move_cursor(Down) never change
\* last_manual_col, whatever the lengths of the lines and the horizontal
\* scroll position.
C16_VerticalMovesKeepManualCol ==
    fault = "none" =>
        \A dir \in {"Up", "Down"} :
            LET r == move_cursor(State, dir)
            IN  Ok(r) => r.last_manual_col = last_manual_col

\* C17 (as claimed): build_lines gives at most `height` rows, and every row is
\* exactly `width` characters long, whatever the length of the buffer line and
\* leftmost_col.
C17_RowsExactlyWidth ==
    fault = "none" =>
        \A h \in SizedHeights, w \in SizedWidths :
            LET b == build_lines(State, h, w)
            IN  Ok(b.state) =>
                    /\ Len(b.lines) <= h
                    /\ \A i \in 1..Len(b.lines) : b.lines[i].len = w

\* C18 (as claimed): jump_to_EOL with the cursor on a line of length n does not
\* panic and changes only cursor.col and leftmost_col.  For n = 0 both become
\* 0.  For n > 0 cursor.col becomes n - 1, inside the columns leftmost_col ..
\* leftmost_col + last_width - 1 of the window; leftmost_col is unchanged when
\* n - 1 was already inside them, and otherwise becomes n - last_width when
\* n - 1 >= last_width, and 0 when the line fits from the start.
C18_JumpToEOLEffect ==
    (fault = "none" /\ cursor.line < Len(buffer)) =>
        LET n == buffer[cursor.line + 1]
            r == jump_to_EOL(State)
            inside == leftmost_col <= n - 1 /\ n - 1 <= leftmost_col + last_width - 1
        IN  /\ Ok(r)
            /\ r = [State EXCEPT !.cursor.col = r.cursor.col,
                                 !.leftmost_col = r.leftmost_col]
            /\ IF n = 0 THEN r.cursor.col = 0 /\ r.leftmost_col = 0
               ELSE /\ r.cursor.col = n - 1
                    /\ r.leftmost_col <= r.cursor.col
                    /\ r.cursor.col <= r.leftmost_col + last_width - 1
                    /\ r.leftmost_col =
                           IF inside THEN leftmost_col
                           ELSE IF n - 1 >= last_width THEN n - last_width
                           ELSE 0

(***************************************************************************)
(* The navigation operations in a window whose width does not change: the  *)
(* text area has the same width at every render but the first, which       *)
(* finds the state as `new` built it.  Its height is any.                  *)
(***************************************************************************)
FixedWidths == 1..MaxWidth

RenderFixedWidth ==
    /\ fault = "none"
    /\ \E h \in Heights, w \in FixedWidths :
           /\ State = new(buffer, overflow_checks) \/ w = last_width
           /\ Apply(render(State, h, w).state)

NextFixedWidth ==
    \/ Up
    \/ Down
    \/ Left
    \/ Right
    \/ Jump
    \/ JumpToEOL
    \/ JumpToHome
    \/ JumpToLastLine
    \/ RenderFixedWidth

SpecFixedWidth == Init /\ [][NextFixedWidth]_vars

\* C19: in a window of a fixed width of 1 or more, after any sequence of
\* move_cursor, jump, jump_to_EOL, jump_to_home and jump_to_last_line that has
\* not panicked, the cursor's column is one of the columns leftmost_col ..
\* leftmost_col + last_width - 1 of the window, so that highlight_cursor's
\* cursor.col - leftmost_col does not underflow.
C19_CursorColInWindow ==
    (fault = "none" /\ last_width >= 1) =>
        /\ leftmost_col <= cursor.col
        /\ cursor.col <= leftmost_col + last_width - 1
        /\ ~SubPanics(State, cursor.col, leftmost_col)

\* The cursor is on the only column of a window of width 1 that has scrolled
\* right, below the first line.
C19_Witness ==
    /\ fault = "none"
    /\ last_width = 1
    /\ leftmost_col = 1
    /\ cursor.col = 1
    /\ cursor.line > 0

\* C20 (as claimed): on a non-empty buffer, in every state reached by the
\* navigation operations and renders of height 2 or more, top_line <=
\* cursor.line, and a render does not panic and highlights exactly one of its
\* rows: the one that shows buffer line cursor.line.
C20_CursorRowHighlighted ==
    (fault = "none" /\ Len(buffer) > 0) =>
        /\ top_line <= cursor.line
        /\ \A h \in SizedHeights, w \in SizedWidths :
               LET r == render(State, h, w)
                   top == BuildTopLine(State, h)
               IN  /\ Ok(r.state)
                   /\ \E i \in 1..Len(r.lines) : top + i - 1 = cursor.line
                   /\ \A i \in 1..Len(r.lines) :
                          (r.lines[i].cursor # "none") <=> (top + i - 1 = cursor.line)

====
